---------------------------- MODULE Spec2Model ----------------------------
(***************************************************************************)
(* Aquaballance bot (src/main.py): the NH3/NH4 calculator, the fish/plant  *)
(* compatibility check and the message handlers over the database.         *)
(*                                                                         *)
(* Numbers.  Every measured quantity is a fixed-point integer in           *)
(* thousandths (7.2 is 7200, 0.02 mg/l is 20): the finest column of the    *)
(* schema is NUMERIC(6,3).  The unionized fraction is held in millionths.  *)
(* NaN and the infinities, which float() also parses, are left out.        *)
(*                                                                         *)
(* Text.  A message is the sequence of its whitespace-separated words      *)
(* (what str.split() returns); the Cyrillic species names of the guide are *)
(* transliterated (guppi, neon, skalyariya, anubias, ...).                 *)
(***************************************************************************)
EXTENDS Integers, Sequences, FiniteSets, TLC

VARIABLES
    users,            \* table users: user_id -> [exists, active_aquarium_id]
    aquariums,        \* table aquariums: row i has id i (SERIAL)
    measurements,     \* table measurements, in insertion order
    aquarium_fish,    \* table aquarium_fish
    aquarium_plants,  \* table aquarium_plants
    water_settings,   \* table water_settings: aquarium_id -> row or None
    tasks,            \* the handler coroutines in flight, one per slot
    eval              \* a call of a pure function: its arguments and result

vars == <<users, aquariums, measurements, aquarium_fish, aquarium_plants,
          water_settings, tasks, eval>>

dbvars == <<users, aquariums, measurements, aquarium_fish, aquarium_plants,
            water_settings>>

-----------------------------------------------------------------------------
(* Python values *)

\* None, and a present value v, kept apart from the integers
None == <<>>
Some(v) == <<v>>
Val(o) == o[1]

\* dict.get(k): None for a missing key
dict_get(d, k) == IF k \in DOMAIN d THEN d[k] ELSE None

\* Python truthiness of an optional number: None and 0.0 are falsy
truthy(o) == o # None /\ Val(o) # 0

\* a or b
py_or(a, b) == IF truthy(a) THEN a ELSE b

Max(a, b) == IF a >= b THEN a ELSE b
Min(a, b) == IF a <= b THEN a ELSE b
Abs(a) == IF a < 0 THEN 0 - a ELSE a

\* real division rounded toward zero, for either sign (b # 0)
RDiv(a, b) ==
    IF (a < 0) = (b < 0) THEN Abs(a) \div Abs(b) ELSE 0 - (Abs(a) \div Abs(b))

\* one unit of the fixed-point numbers: 1.0 is 1000
Unit == 1000

\* 1.0 as a fraction in millionths
FracOne == 1000000

-----------------------------------------------------------------------------
(* NH3 / NH4 calculator: src/main.py 141-157 *)

\* 1000 * 10^(r/100) for r = 0..99, rounded: the fractional part of pow(10.0, x)
Pow10Frac ==
  << 1000, 1023, 1047, 1072, 1096, 1122, 1148, 1175, 1202, 1230,
     1259, 1288, 1318, 1349, 1380, 1413, 1445, 1479, 1514, 1549,
     1585, 1622, 1660, 1698, 1738, 1778, 1820, 1862, 1905, 1950,
     1995, 2042, 2089, 2138, 2188, 2239, 2291, 2344, 2399, 2455,
     2512, 2570, 2630, 2692, 2754, 2818, 2884, 2951, 3020, 3090,
     3162, 3236, 3311, 3388, 3467, 3548, 3631, 3715, 3802, 3890,
     3981, 4074, 4169, 4266, 4365, 4467, 4571, 4677, 4786, 4898,
     5012, 5129, 5248, 5370, 5495, 5623, 5754, 5888, 6026, 6166,
     6310, 6457, 6607, 6761, 6918, 7079, 7244, 7413, 7586, 7762,
     7943, 8128, 8318, 8511, 8710, 8913, 9120, 9333, 9550, 9772 >>

RECURSIVE IntPow10(_)
IntPow10(n) == IF n = 0 THEN 1 ELSE 10 * IntPow10(n - 1)

\* the largest x, in thousandths, for which pow(10.0, x) is a finite double
\* (log10 of the largest double is 308.2547); above it pow raises OverflowError
PowOverflow == 308254

\* 1000 * 10^(x/1000) for 0 <= x < 6000
Pow10Milli(x) == IntPow10(x \div Unit) * Pow10Frac[((x % Unit) \div 10) + 1]

\* 1.0 / (1.0 + pow(10.0, x)) in millionths, x in thousandths, x <= PowOverflow.
\* Beyond 10^6 the quotient is below one millionth; below 10^-6 it is above
\* 1 - one millionth.
InvOnePlusPow10(x) ==
    IF x >= 6 * Unit THEN 0
    ELSE IF x >= 0 THEN (FracOne * Unit) \div (Unit + Pow10Milli(x))
    ELSE IF x > 0 - 6 * Unit
         THEN FracOne - ((FracOne * Unit) \div (Unit + Pow10Milli(0 - x)))
    ELSE FracOne

\* 2729.92 / t_k in thousandths, t_k in thousandths and not 0.  Below 2.73 K the
\* quotient is beyond 1000 either way and is held at +-1000: with |pH| < 600
\* that is an overflow (t_k > 0) or a fraction of 1 (t_k < 0) all the same.
PkaQuot(t_k) ==
    IF Abs(t_k) <= 2729 THEN (IF t_k > 0 THEN 1000 * Unit ELSE 0 - 1000 * Unit)
    ELSE RDiv(2729920, t_k) * Unit
         + RDiv((2729920 - RDiv(2729920, t_k) * t_k) * Unit, t_k)

\* a raised exception, and a returned value
Raise(e) == [ok |-> FALSE, err |-> e]
Return(v) == [ok |-> TRUE, val |-> v]

\* nh3_fraction(pH, temp_c): the fraction in millionths, or the exception
nh3_fraction(pH, temp_c) ==
    LET t_k == 273150 + temp_c IN
    IF t_k = 0 THEN Raise("ZeroDivisionError")
    ELSE LET pKa == 90 + PkaQuot(t_k) IN
         IF pKa - pH > PowOverflow THEN Raise("OverflowError")
         ELSE Return(Max(0, Min(FracOne, InvOnePlusPow10(pKa - pH))))

\* tan * frac with frac in millionths, without leaving 32 bits
MulFrac(tan, frac) ==
    (tan \div Unit) * (frac \div Unit) * Unit
    + (tan \div Unit) * (frac % Unit)
    + (tan % Unit) * (frac \div Unit)
    + ((tan % Unit) * (frac % Unit)) \div Unit

\* split_tan_to_nh3_nh4(tan, pH, temp_c): <<nh3, nh4>>, or the exception
split_tan_to_nh3_nh4(tan, pH, temp_c) ==
    LET tan0 == Max(0, tan)
        frac == nh3_fraction(pH, temp_c) IN
    IF ~frac.ok THEN frac
    ELSE LET nh3 == MulFrac(tan0, frac.val) \div Unit
             nh4 == tan0 - nh3 IN
         Return(<<nh3, nh4>>)

-----------------------------------------------------------------------------
(* Fish / plant compatibility: src/main.py 160-211 *)

\* name -> <<pH_min, pH_max, GH_min, GH_max, T_min, T_max, NO2_max, NH3_max>>
FISH_GUIDE ==
    [k \in {"guppi", "neon", "skalyariya", "zolotaya rybka"} |->
        CASE k = "guppi"          -> <<6800, 8200, 6000, 18000, 22000, 28000, 100, 20>>
          [] k = "neon"           -> <<5000, 7200, 1000, 10000, 22000, 26000, 50, 10>>
          [] k = "skalyariya"     -> <<6000, 7500, 3000, 12000, 24000, 30000, 100, 20>>
          [] k = "zolotaya rybka" -> <<6500, 8000, 5000, 20000, 18000, 24000, 100, 20>>]

\* name -> <<pH_min, pH_max, GH_min, GH_max, T_min, T_max, NO3_min, NO3_max,
\*           PO4_min, PO4_max>>
PLANT_GUIDE ==
    [k \in {"anubias", "rogolistnik", "elodeya"} |->
        CASE k = "anubias"     -> <<6000, 8000, 3000, 15000, 22000, 28000, 5000, 30000, 200, 2000>>
          [] k = "rogolistnik" -> <<6000, 8000, 3000, 18000, 18000, 28000, 1000, 20000, 100, 1500>>
          [] k = "elodeya"     -> <<6500, 8000, 4000, 18000, 18000, 28000, 1000, 20000, 100, 1500>>]

\* str.lower() on the words of the model that hold an upper-case letter; every
\* other word of the model is lower-case already
LowerOf ==
    [w \in {"Guppi", "GUPPI", "NEON", "Skalyariya", "Zolotaya Rybka", "ZAVRIK",
            "Anubias", "ELODEYA", "Rogolistnik", "PH", "Tan", "T", "TEMP"} |->
        CASE w = "Guppi"          -> "guppi"
          [] w = "GUPPI"          -> "guppi"
          [] w = "NEON"           -> "neon"
          [] w = "Skalyariya"     -> "skalyariya"
          [] w = "Zolotaya Rybka" -> "zolotaya rybka"
          [] w = "ZAVRIK"         -> "zavrik"
          [] w = "Anubias"        -> "anubias"
          [] w = "ELODEYA"        -> "elodeya"
          [] w = "Rogolistnik"    -> "rogolistnik"
          [] w = "PH"             -> "ph"
          [] w = "Tan"            -> "tan"
          [] w = "T"              -> "t"
          [] w = "TEMP"           -> "temp"]

str_lower(w) == IF w \in DOMAIN LowerOf THEN LowerOf[w] ELSE w

\* OutOfRange with the bounds themselves counted as violations (<=, >=)
OutOfRange_exclusive(x, lo, hi, tag) ==
    IF x # None /\ (Val(x) <= lo \/ Val(x) >= hi) THEN << <<tag, lo, hi>> >> ELSE <<>>

\* x is not None and (x < lo or x > hi): one message, or none
OutOfRange(x, lo, hi, tag) ==
    IF x # None /\ (Val(x) < lo \/ Val(x) > hi) THEN << <<tag, lo, hi>> >> ELSE <<>>

\* x is not None and x > hi: one message, or none
Above(x, hi, tag) ==
    IF x # None /\ Val(x) > hi THEN << <<tag, hi>> >> ELSE <<>>

\* the advisory for a species the guide does not hold
NoGuide(species) == << <<"no guide", species>> >>

\* check_fish_compat that refuses a species the guide does not hold
check_fish_compat_failclosed(meas, species) ==
    LET key == str_lower(species) IN
    IF key \notin DOMAIN FISH_GUIDE THEN <<FALSE, NoGuide(species)>>
    ELSE LET sp  == FISH_GUIDE[key]
             probs == OutOfRange(dict_get(meas, "ph"), sp[1], sp[2], "pH")
                      \o OutOfRange(dict_get(meas, "gh"), sp[3], sp[4], "GH")
                      \o OutOfRange(dict_get(meas, "temperature_c"), sp[5], sp[6], "T")
                      \o Above(dict_get(meas, "no2"), sp[7], "NO2")
                      \o Above(dict_get(meas, "nh3"), sp[8], "NH3") IN
         <<Len(probs) = 0, probs>>

\* check_fish_compat(meas, species): <<ok, probs>>
check_fish_compat(meas, species) ==
    LET key == str_lower(species) IN
    IF key \notin DOMAIN FISH_GUIDE THEN <<TRUE, NoGuide(species)>>
    ELSE LET sp  == FISH_GUIDE[key]
             ph  == dict_get(meas, "ph")
             gh  == dict_get(meas, "gh")
             t   == dict_get(meas, "temperature_c")
             no2 == dict_get(meas, "no2")
             nh3 == dict_get(meas, "nh3")
             probs == OutOfRange(ph, sp[1], sp[2], "pH")
                      \o OutOfRange(gh, sp[3], sp[4], "GH")
                      \o OutOfRange(t, sp[5], sp[6], "T")
                      \o Above(no2, sp[7], "NO2")
                      \o Above(nh3, sp[8], "NH3") IN
         <<Len(probs) = 0, probs>>

\* check_plant_compat that tolerates one violation (len(probs) <= 1)
check_plant_compat_lenient(meas, species) ==
    LET key == str_lower(species) IN
    IF key \notin DOMAIN PLANT_GUIDE THEN <<TRUE, NoGuide(species)>>
    ELSE LET sp  == PLANT_GUIDE[key]
             probs == OutOfRange(dict_get(meas, "ph"), sp[1], sp[2], "pH")
                      \o OutOfRange(dict_get(meas, "gh"), sp[3], sp[4], "GH")
                      \o OutOfRange(dict_get(meas, "temperature_c"), sp[5], sp[6], "T")
                      \o OutOfRange(dict_get(meas, "no3"), sp[7], sp[8], "NO3")
                      \o OutOfRange(dict_get(meas, "po4"), sp[9], sp[10], "PO4") IN
         <<Len(probs) <= 1, probs>>

\* check_plant_compat(meas, species): <<ok, probs>>
check_plant_compat(meas, species) ==
    LET key == str_lower(species) IN
    IF key \notin DOMAIN PLANT_GUIDE THEN <<TRUE, NoGuide(species)>>
    ELSE LET sp  == PLANT_GUIDE[key]
             ph  == dict_get(meas, "ph")
             gh  == dict_get(meas, "gh")
             t   == dict_get(meas, "temperature_c")
             no3 == dict_get(meas, "no3")
             po4 == dict_get(meas, "po4")
             probs == OutOfRange(ph, sp[1], sp[2], "pH")
                      \o OutOfRange(gh, sp[3], sp[4], "GH")
                      \o OutOfRange(t, sp[5], sp[6], "T")
                      \o OutOfRange(no3, sp[7], sp[8], "NO3")
                      \o OutOfRange(po4, sp[9], sp[10], "PO4") IN
         <<Len(probs) = 0, probs>>

-----------------------------------------------------------------------------
(* Message text: src/main.py 262-278, 329-339, 430-439, 493-502 *)

\* A message is the list str.split() returns.  A word is held as what
\* word.split("=", 1) returns: <<w>> for a word without "=", <<k, v>> for "k=v".
HasEq(word) == Len(word) = 2

\* v.replace(",", "."): the words of the model that hold a comma
CommaOf ==
    [w \in {"7,2", "0,2", "60,5"} |->
        CASE w = "7,2" -> "7.2" [] w = "0,2" -> "0.2" [] w = "60,5" -> "60.5"]

replace_comma(w) == IF w \in DOMAIN CommaOf THEN CommaOf[w] ELSE w

\* float(w) on the words of the model, in thousandths; any other word raises
\* ValueError
FloatOf ==
    [w \in {"0", "0.0", "0.02", "0.2", "0.5", "4", "7.2", "8", "9.5", "10", "25",
            "30", "40", "60.5", "100", "-1", "-273.15", "3", "5", "7", "-2"} |->
        CASE w = "0" -> 0 [] w = "0.0" -> 0 [] w = "0.02" -> 20 [] w = "0.2" -> 200
          [] w = "0.5" -> 500 [] w = "4" -> 4000 [] w = "7.2" -> 7200
          [] w = "8" -> 8000 [] w = "9.5" -> 9500 [] w = "10" -> 10000
          [] w = "25" -> 25000 [] w = "30" -> 30000 [] w = "40" -> 40000
          [] w = "60.5" -> 60500 [] w = "100" -> 100000 [] w = "-1" -> -1000
          [] w = "-273.15" -> -273150 [] w = "3" -> 3000 [] w = "5" -> 5000
          [] w = "7" -> 7000 [] w = "-2" -> -2000]

\* float(w): Some(number), or None for ValueError
py_float(w) == IF w \in DOMAIN FloatOf THEN Some(FloatOf[w]) ELSE None

\* int(w) on the words of the model; any other word ("abc", "2.5", "") raises
\* ValueError
IntOf ==
    [w \in {"0", "3", "5", "7", "30", "100", "-2", "-1"} |->
        CASE w = "0" -> 0 [] w = "3" -> 3 [] w = "5" -> 5 [] w = "7" -> 7
          [] w = "30" -> 30 [] w = "100" -> 100 [] w = "-2" -> -2 [] w = "-1" -> -1]

\* int(w): Some(number), or None for ValueError
py_int(w) == IF w \in DOMAIN IntOf THEN Some(IntOf[w]) ELSE None

\* the word as typed, for a word without "="
Plain(word) == word[1]

\* text.split(maxsplit=2)[2]: the rest of the message as one string.  int() and
\* float() take it only when it is one word without "=".
RestIsOneWord(text) == Len(text) = 3 /\ ~HasEq(text[3])

\* int(parts[2]) after text.split(maxsplit=2)
int_of_rest(text) == IF RestIsOneWord(text) THEN py_int(Plain(text[3])) ELSE None

\* float(parts[2].replace(",", ".")) after text.split(maxsplit=2)
float_of_rest(text) ==
    IF RestIsOneWord(text) THEN py_float(replace_comma(Plain(text[3]))) ELSE None

\* parse_kv_args(s): the dict of the chunks "k=v" whose v float() takes, a later
\* chunk replacing an earlier one, the others dropped without a word
RECURSIVE parse_kv_from(_, _, _)
parse_kv_from(text, i, out) ==
    IF i > Len(text) THEN out
    ELSE IF ~HasEq(text[i]) THEN parse_kv_from(text, i + 1, out)
    ELSE LET k == str_lower(text[i][1])
             v == py_float(replace_comma(text[i][2])) IN
         IF v = None THEN parse_kv_from(text, i + 1, out)
         ELSE parse_kv_from(text, i + 1,
                  [x \in DOMAIN out \cup {k} |-> IF x = k THEN v ELSE out[x]])

parse_kv_args(text) == parse_kv_from(text, 1, <<>>)

-----------------------------------------------------------------------------
(* The database after ensure_schema(), and no handler running *)

UserIds == {1, 2}
TaskIds == {"h1", "h2"}

\* a slot with no coroutine in it
Idle == [pc |-> "idle", cmd |-> "none", user |-> 0, text |-> <<>>, aq_id |-> None,
         loc |-> None, replies |-> <<>>, writes |-> <<>>, err |-> None]

DbInit ==
    /\ users = [u \in UserIds |-> [exists |-> FALSE, active_aquarium_id |-> None]]
    /\ aquariums = <<>>
    /\ measurements = <<>>
    /\ aquarium_fish = <<>>
    /\ aquarium_plants = <<>>
    /\ water_settings = <<>>

NoEval == [fn |-> "none"]

-----------------------------------------------------------------------------
(* Storage: SCHEMA_SQL (src/main.py 76-135) and the queries of the helpers *)

\* v rounded half away from zero to a multiple of q thousandths
RoundTo(v, q) ==
    IF v >= 0 THEN ((v + q \div 2) \div q) * q ELSE 0 - (((0 - v) + q \div 2) \div q) * q

\* a value into a NUMERIC(p, s) column is rounded to s decimals (q thousandths)
to_numeric(o, q) == IF o = None THEN None ELSE Some(RoundTo(Val(o), q))

\* the column takes the value: rounded, it stays below 10^(p-s) (limit, in
\* thousandths); otherwise the INSERT fails with "numeric field overflow"
numeric_fits(o, limit, q) == o = None \/ Abs(RoundTo(Val(o), q)) < limit

\* the parameters p fit the columns of measurements
measurement_fits(p) ==
    /\ numeric_fits(p.ph, 100000, 10)
    /\ numeric_fits(p.kh, 1000000, 10)
    /\ numeric_fits(p.gh, 1000000, 10)
    /\ numeric_fits(p.no2, 1000000, 1)
    /\ numeric_fits(p.no3, 10000000, 10)
    /\ numeric_fits(p.tan, 1000000, 1)
    /\ numeric_fits(p.nh3, 1000000, 1)
    /\ numeric_fits(p.nh4, 1000000, 1)
    /\ numeric_fits(p.po4, 10000000, 10)
    /\ numeric_fits(p.temperature_c, 1000000, 10)

\* the row INSERT INTO measurements stores for the parameters p
measurement_row(p) ==
    [aquarium_id   |-> p.aquarium_id,
     ph            |-> to_numeric(p.ph, 10),
     kh            |-> to_numeric(p.kh, 10),
     gh            |-> to_numeric(p.gh, 10),
     no2           |-> to_numeric(p.no2, 1),
     no3           |-> to_numeric(p.no3, 10),
     tan           |-> to_numeric(p.tan, 1),
     nh3           |-> to_numeric(p.nh3, 1),
     nh4           |-> to_numeric(p.nh4, 1),
     po4           |-> to_numeric(p.po4, 10),
     temperature_c |-> to_numeric(p.temperature_c, 10)]

\* get_active_aq(user_id): the id, or None for no row, NULL or 0
get_active_aq(user_id) ==
    IF users[user_id].exists /\ truthy(users[user_id].active_aquarium_id)
    THEN users[user_id].active_aquarium_id
    ELSE None

\* the dict get_last_meas builds: the nine selected columns, None for a NULL
MeasDict(ph, gh, t, no2, no3, tan, nh3, nh4, po4) ==
    [k \in {"ph", "gh", "temperature_c", "no2", "no3", "tan", "nh3", "nh4", "po4"} |->
        CASE k = "ph" -> ph [] k = "gh" -> gh [] k = "temperature_c" -> t
          [] k = "no2" -> no2 [] k = "no3" -> no3 [] k = "tan" -> tan
          [] k = "nh3" -> nh3 [] k = "nh4" -> nh4 [] k = "po4" -> po4]

\* {}: the empty dict.  Python's None is falsy like it, and every reader of
\* get_last_meas tests only that ("or {}", "if not meas"), so one value stands
\* for both.
EmptyDict == <<>>

\* get_last_meas(aq_id): the newest measurement of the aquarium as a dict
get_last_meas(aq_id) ==
    LET mine == {i \in DOMAIN measurements : measurements[i].aquarium_id = aq_id} IN
    IF mine = {} THEN EmptyDict
    ELSE LET r == measurements[CHOOSE i \in mine : \A j \in mine : j <= i] IN
         MeasDict(r.ph, r.gh, r.temperature_c, r.no2, r.no3, r.tan, r.nh3, r.nh4, r.po4)

\* the ids of the aquariums of a user
own_aquariums(user_id) == {i \in DOMAIN aquariums : aquariums[i].user_id = user_id}

-----------------------------------------------------------------------------
(* The handlers: src/main.py 238-598.  A handler runs as a coroutine that     *)
(* suspends at every awaited adb_exec; one action is one database statement  *)
(* together with the code that runs up to the next one.  The replies         *)
(* (m.answer) are recorded with the step that sends them.                    *)

MaxAquariums == 2
MaxRows == 3

NewTask(cmd, user, text, pc) ==
    [pc |-> pc, cmd |-> cmd, user |-> user, text |-> text, aq_id |-> None,
     loc |-> None, replies |-> <<>>, writes |-> <<>>, err |-> None]

Goto(t, pc) == [t EXCEPT !.pc = pc]
Reply(t, msg) == [t EXCEPT !.replies = Append(@, msg)]
Done(t) == [t EXCEPT !.pc = "done"]
Fail(t, e) == [t EXCEPT !.pc = "failed", !.err = Some(e)]
Wrote(t, w) == [t EXCEPT !.writes = Append(@, w)]
Local(t, v) == [t EXCEPT !.loc = Some(v)]

SetTask(h, t) == tasks' = [tasks EXCEPT ![h] = t]

Running(cmd) == {h \in TaskIds : tasks[h].cmd = cmd /\ tasks[h].pc \notin {"done", "failed"}}

\* the handlers that begin with ensure_user
EnsuresUser == {"start", "list_aquariums", "add_aquarium"}
\* the handlers that begin with get_active_aq and return when it is None
NeedsAquarium == {"add_measure", "add_fish", "add_plant", "set_water_change",
                  "history", "suggest", "chart"}

EntryPc(cmd) ==
    IF cmd \in EnsuresUser THEN "ensure_user_select"
    ELSE IF cmd = "set_active_cb" THEN "select_owner"
    ELSE IF cmd = "chart" THEN "import_matplotlib"
    ELSE "get_active_aq"

\* the handlers that insert a row, and the rows there are
Inserts == {"add_aquarium", "add_measure", "add_fish", "add_plant"}
Rows == Len(aquariums) + Len(measurements) + Len(aquarium_fish) + Len(aquarium_plants)

\* A message arrives and the dispatcher starts its handler.  The tables stay
\* within the bounds: a handler that may insert is started only while there is
\* room for its row, counting the rows the running handlers may still insert.
Start(h, cmd, user, text) ==
    /\ tasks[h].pc = "idle"
    /\ cmd = "add_aquarium" =>
           Len(aquariums) + Cardinality(Running("add_aquarium")) < MaxAquariums
    /\ cmd \in Inserts =>
           Rows + Cardinality(UNION {Running(c) : c \in Inserts}) < MaxRows
    /\ SetTask(h, NewTask(cmd, user, text, EntryPc(cmd)))
    /\ UNCHANGED <<dbvars, eval>>

\* the handler has returned or raised; its slot is free again
Finish(h) ==
    /\ tasks[h].pc \in {"done", "failed"}
    /\ SetTask(h, Idle)
    /\ UNCHANGED <<dbvars, eval>>

(* ensure_user and what follows it: cmd_start, list_aquariums, add_aquarium *)

\* after ensure_user: cmd_start 284-297, list_aquariums 303, add_aquarium 329-340
after_ensure_user(t) ==
    CASE t.cmd = "start" -> Done(Reply(t, <<"welcome">>))
      [] t.cmd = "list_aquariums" -> Goto(t, "select_aquariums")
      [] t.cmd = "add_aquarium" ->
            IF Len(t.text) < 2 THEN Done(Reply(t, <<"usage">>))
            ELSE Goto(t, "insert_aquarium")

\* ensure_user, line 239: SELECT 1 FROM users WHERE user_id=%s
EnsureUserSelect(h) ==
    LET t == tasks[h] IN
    /\ t.pc = "ensure_user_select"
    /\ IF users[t.user].exists
       THEN SetTask(h, after_ensure_user(t))
       ELSE SetTask(h, Goto(t, "ensure_user_insert"))
    /\ UNCHANGED <<dbvars, eval>>

\* ensure_user, line 241: INSERT INTO users; user_id is the primary key
EnsureUserInsert(h) ==
    LET t == tasks[h]
        w == [op |-> "INSERT users", user_id |-> t.user] IN
    /\ t.pc = "ensure_user_insert"
    /\ IF users[t.user].exists
       THEN /\ SetTask(h, Fail(Wrote(t, w), "UniqueViolation"))
            /\ UNCHANGED users
       ELSE /\ users' = [users EXCEPT ![t.user] =
                            [exists |-> TRUE, active_aquarium_id |-> None]]
            /\ SetTask(h, after_ensure_user(Wrote(t, w)))
    /\ UNCHANGED <<aquariums, measurements, aquarium_fish, aquarium_plants,
                   water_settings, eval>>

\* list_aquariums, lines 303-308
ListSelect(h) ==
    LET t == tasks[h] IN
    /\ t.pc = "select_aquariums"
    /\ IF own_aquariums(t.user) = {}
       THEN SetTask(h, Done(Reply(t, <<"no aquariums yet">>)))
       ELSE SetTask(h, Done(Reply(t, <<"choose active", own_aquariums(t.user)>>)))
    /\ UNCHANGED <<dbvars, eval>>

\* set_active_cb, lines 312-317: the callback data is <<"setactive", id>>
SetActiveSelect(h) ==
    LET t == tasks[h]
        aq_id == t.text[2] IN
    /\ t.pc = "select_owner"
    /\ IF aq_id \in own_aquariums(t.user)
       THEN SetTask(h, Goto(Local(t, aq_id), "update_active"))
       ELSE SetTask(h, Done(Reply(t, <<"no access">>)))
    /\ UNCHANGED <<dbvars, eval>>

\* UPDATE users SET active_aquarium_id=%s WHERE user_id=%s: no row, no change
update_active(user_id, aq_id) ==
    IF users[user_id].exists
    THEN [users EXCEPT ![user_id].active_aquarium_id = Some(aq_id)]
    ELSE users

\* set_active_cb, lines 318-320
SetActiveUpdate(h) ==
    LET t == tasks[h]
        w == [op |-> "UPDATE users", user_id |-> t.user, active_aquarium_id |-> Val(t.loc)] IN
    /\ t.pc = "update_active"
    /\ t.cmd = "set_active_cb"
    /\ users' = update_active(t.user, Val(t.loc))
    /\ SetTask(h, Done(Reply(Wrote(t, w), <<"active aquarium", Val(t.loc)>>)))
    /\ UNCHANGED <<aquariums, measurements, aquarium_fish, aquarium_plants,
                   water_settings, eval>>

\* add_aquarium, lines 333-343: INSERT INTO aquariums; user_id references users
AquariumInsert(h) ==
    LET t == tasks[h]
        row == [user_id |-> t.user, name |-> Plain(t.text[2]),
                volume_l |-> IF Len(t.text) >= 3 THEN float_of_rest(t.text) ELSE None]
        w == [op |-> "INSERT aquariums", row |-> row] IN
    /\ t.pc = "insert_aquarium"
    /\ IF users[t.user].exists
       THEN /\ aquariums' = Append(aquariums, row)
            /\ SetTask(h, Goto(Wrote(t, w), "get_active_aq"))
       ELSE /\ SetTask(h, Fail(Wrote(t, w), "ForeignKeyViolation"))
            /\ UNCHANGED aquariums
    /\ UNCHANGED <<users, measurements, aquarium_fish, aquarium_plants,
                   water_settings, eval>>

\* add_aquarium, lines 347-351: SELECT id ... ORDER BY id DESC LIMIT 1
AquariumSelectLast(h) ==
    LET t == tasks[h]
        mine == own_aquariums(t.user) IN
    /\ t.pc = "select_last_aquarium"
    /\ IF mine = {}
       THEN SetTask(h, Done(Reply(t, <<"aquarium added">>)))
       ELSE SetTask(h, Goto(Local(t, CHOOSE i \in mine : \A j \in mine : j <= i),
                            "update_active"))
    /\ UNCHANGED <<dbvars, eval>>

\* add_aquarium, lines 350-351
AquariumUpdateActive(h) ==
    LET t == tasks[h]
        w == [op |-> "UPDATE users", user_id |-> t.user, active_aquarium_id |-> Val(t.loc)] IN
    /\ t.pc = "update_active"
    /\ t.cmd = "add_aquarium"
    /\ users' = update_active(t.user, Val(t.loc))
    /\ SetTask(h, Done(Reply(Wrote(t, w), <<"aquarium added">>)))
    /\ UNCHANGED <<aquariums, measurements, aquarium_fish, aquarium_plants,
                   water_settings, eval>>

(* get_active_aq and what follows it *)

\* float(word.replace(",", ".")) and int(word) for one word of text.split()
float_of_word(word) == IF HasEq(word) THEN None ELSE py_float(replace_comma(Plain(word)))
int_of_word(word) == IF HasEq(word) THEN None ELSE py_int(Plain(word))

\* add_measure, lines 365-377: the parameters of the INSERT, or the exception
\* split_tan_to_nh3_nh4 raises
measure_params(aq_id, text) ==
    LET kv  == parse_kv_args(text)
        ph  == dict_get(kv, "ph")
        tan == dict_get(kv, "tan")
        t   == py_or(py_or(py_or(dict_get(kv, "t"), dict_get(kv, "temp")),
                           dict_get(kv, "temperature")),
                     dict_get(kv, "temperature_c"))
        split == IF tan # None /\ ph # None /\ t # None
                 THEN split_tan_to_nh3_nh4(Val(tan), Val(ph), Val(t))
                 ELSE Return(<<>>) IN
    IF ~split.ok THEN split
    ELSE Return([aquarium_id   |-> aq_id,
                 ph            |-> ph,
                 kh            |-> dict_get(kv, "kh"),
                 gh            |-> dict_get(kv, "gh"),
                 no2           |-> dict_get(kv, "no2"),
                 no3           |-> dict_get(kv, "no3"),
                 tan           |-> tan,
                 nh3           |-> IF split.val = <<>> THEN None ELSE Some(split.val[1]),
                 nh4           |-> IF split.val = <<>> THEN None ELSE Some(split.val[2]),
                 po4           |-> dict_get(kv, "po4"),
                 temperature_c |-> t])

\* chart_cmd, line 563: key_map
ChartKeyMap ==
    [m \in {"ph", "no3", "nh3", "po4", "t"} |->
        CASE m = "ph" -> "ph" [] m = "no3" -> "no3" [] m = "nh3" -> "nh3"
          [] m = "po4" -> "po4" [] m = "t" -> "temperature_c"]

NoActive == <<"choose the active aquarium first">>

\* the handler's code after "if not aq_id: ... return": add_measure 365-377,
\* history 395, add_fish 430-439, add_plant 461-470, set_water_change 493-502,
\* suggest 520, chart 558-573
after_active_found(t) ==
    CASE t.cmd = "add_measure" ->
            LET p == measure_params(Val(t.aq_id), t.text) IN
            IF p.ok THEN Goto(Local(t, p.val), "insert_measurement")
            ELSE Fail(t, p.err)
      [] t.cmd \in {"add_fish", "add_plant"} ->
            IF Len(t.text) < 3 THEN Done(Reply(t, <<"usage">>))
            ELSE IF int_of_rest(t.text) = None
                 THEN Done(Reply(t, <<"the quantity must be an integer">>))
            ELSE Goto(t, "get_last_meas")
      [] t.cmd = "set_water_change" ->
            IF Len(t.text) # 3 THEN Done(Reply(t, <<"usage">>))
            ELSE IF float_of_word(t.text[2]) = None \/ int_of_word(t.text[3]) = None
                 THEN Done(Reply(t, <<"check the number format">>))
            ELSE Goto(t, "upsert_water_settings")
      [] t.cmd = "history" -> Goto(t, "select_history")
      [] t.cmd = "suggest" -> Goto(t, "get_last_meas")
      [] t.cmd = "chart" ->
            IF Len(t.text) < 2 THEN Done(Reply(t, <<"usage">>))
            ELSE IF HasEq(t.text[2]) \/ str_lower(Plain(t.text[2])) \notin DOMAIN ChartKeyMap
                 THEN Done(Reply(t, <<"unknown metric">>))
            ELSE Goto(t, "select_chart")

\* after_get_active with the guard "if not aq_id: ... return" missing from
\* set_water_change
after_get_active_unguarded(t) ==
    IF t.cmd = "add_aquarium"
    THEN IF t.aq_id = None THEN Goto(t, "select_last_aquarium")
         ELSE Done(Reply(t, <<"aquarium added">>))
    ELSE IF t.aq_id = None /\ t.cmd # "set_water_change" THEN Done(Reply(t, NoActive))
    ELSE after_active_found(t)

\* the handler's code between get_active_aq and its next statement:
\* add_aquarium 345-351; the others return with guidance when there is no
\* active aquarium (362-364, 392-394, 427-429, 458-460, 490-492, 517-519, 554-556)
after_get_active(t) ==
    IF t.cmd = "add_aquarium"
    THEN IF t.aq_id = None THEN Goto(t, "select_last_aquarium")
         ELSE Done(Reply(t, <<"aquarium added">>))
    ELSE IF t.aq_id = None THEN Done(Reply(t, NoActive))
    ELSE after_active_found(t)

\* get_active_aq, line 244: SELECT active_aquarium_id FROM users
GetActiveAq(h) ==
    LET t == tasks[h] IN
    /\ t.pc = "get_active_aq"
    /\ SetTask(h, after_get_active([t EXCEPT !.aq_id = get_active_aq(t.user)]))
    /\ UNCHANGED <<dbvars, eval>>

\* the table after a statement that overwrote the aquarium's newest row
\* instead of adding one
insert_measurement_overwriting(row) ==
    LET same == {i \in DOMAIN measurements :
                    measurements[i].aquarium_id = row.aquarium_id} IN
    IF same = {} THEN Append(measurements, row)
    ELSE [measurements EXCEPT ![CHOOSE i \in same : \A j \in same : j <= i] = row]

\* the table after INSERT INTO measurements (...) VALUES (...), lines 379-382
insert_measurement(row) == Append(measurements, row)

\* add_measure, lines 379-386: INSERT INTO measurements
MeasureInsert(h) ==
    LET t == tasks[h]
        p == Val(t.loc)
        w == [op |-> "INSERT measurements", row |-> p] IN
    /\ t.pc = "insert_measurement"
    /\ IF measurement_fits(p)
       THEN /\ measurements' = insert_measurement(measurement_row(p))
            /\ SetTask(h, Done(Reply(Wrote(t, w),
                   IF p.nh3 # None /\ p.nh4 # None
                   THEN <<"measurement saved", Val(p.nh3), Val(p.nh4)>>
                   ELSE <<"measurement saved">>)))
       ELSE /\ SetTask(h, Fail(Wrote(t, w), "NumericValueOutOfRange"))
            /\ UNCHANGED measurements
    /\ UNCHANGED <<users, aquariums, aquarium_fish, aquarium_plants,
                   water_settings, eval>>

\* suggest, lines 521-535
suggest_reply(meas) ==
    IF meas = EmptyDict THEN <<"no measurements">>
    ELSE LET tips ==
                (IF meas["nh3"] # None /\ Val(meas["nh3"]) > 20 THEN <<"NH3 high">> ELSE <<>>)
             \o (IF meas["no2"] # None /\ Val(meas["no2"]) > 100 THEN <<"NO2 high">> ELSE <<>>)
             \o (IF meas["no3"] # None /\ Val(meas["no3"]) > 30000 THEN <<"NO3 high">> ELSE <<>>)
             \o (IF meas["ph"] # None /\ (Val(meas["ph"]) < 6000 \/ Val(meas["ph"]) > 8500)
                 THEN <<"pH out of 6.0-8.5">> ELSE <<>>) IN
         <<"tips", IF tips = <<>> THEN <<"all fine">> ELSE tips>>

\* add_fish, lines 442-443, with the INSERT issued only for a compatible fish
add_fish_checked_blocking(t, meas) ==
    LET verdict == check_fish_compat(meas, Plain(t.text[2])) IN
    IF verdict[1] THEN Goto(Local(t, verdict), "insert_fish")
    ELSE Done(Reply(t, <<"not added", verdict[2]>>))

\* add_fish, lines 442-443: the verdict, then on to the INSERT
add_fish_checked(t, meas) ==
    Goto(Local(t, check_fish_compat(meas, Plain(t.text[2]))), "insert_fish")

\* add_plant, lines 472-473: the verdict, then on to the INSERT
add_plant_checked(t, meas) ==
    Goto(Local(t, check_plant_compat(meas, Plain(t.text[2]))), "insert_plant")

\* get_last_meas, lines 250-260, and the caller's code after it: add_fish,
\* add_plant, suggest
GetLastMeas(h) ==
    LET t == tasks[h]
        meas == get_last_meas(Val(t.aq_id)) IN
    /\ t.pc = "get_last_meas"
    /\ SetTask(h, CASE t.cmd = "add_fish" -> add_fish_checked(t, meas)
                    [] t.cmd = "add_plant" -> add_plant_checked(t, meas)
                    [] t.cmd = "suggest" -> Done(Reply(t, suggest_reply(meas))))
    /\ UNCHANGED <<dbvars, eval>>

\* the reply after the organism is inserted: lines 445-448, 475-478
organism_reply(verdict) ==
    IF verdict[1] THEN <<"added, compatibility OK">>
    ELSE <<"added, with remarks", verdict[2]>>

\* add_fish, line 444: INSERT INTO aquarium_fish; CHECK (qty > 0)
FishInsert(h) ==
    LET t == tasks[h]
        row == [aquarium_id |-> Val(t.aq_id), species |-> Plain(t.text[2]),
                qty |-> Val(int_of_rest(t.text))]
        w == [op |-> "INSERT aquarium_fish", row |-> row] IN
    /\ t.pc = "insert_fish"
    /\ IF row.qty > 0
       THEN /\ aquarium_fish' = Append(aquarium_fish, row)
            /\ SetTask(h, Done(Reply(Wrote(t, w), organism_reply(Val(t.loc)))))
       ELSE /\ SetTask(h, Fail(Wrote(t, w), "CheckViolation"))
            /\ UNCHANGED aquarium_fish
    /\ UNCHANGED <<users, aquariums, measurements, aquarium_plants,
                   water_settings, eval>>

\* add_plant, line 474: INSERT INTO aquarium_plants; CHECK (qty > 0)
PlantInsert(h) ==
    LET t == tasks[h]
        row == [aquarium_id |-> Val(t.aq_id), species |-> Plain(t.text[2]),
                qty |-> Val(int_of_rest(t.text))]
        w == [op |-> "INSERT aquarium_plants", row |-> row] IN
    /\ t.pc = "insert_plant"
    /\ IF row.qty > 0
       THEN /\ aquarium_plants' = Append(aquarium_plants, row)
            /\ SetTask(h, Done(Reply(Wrote(t, w), organism_reply(Val(t.loc)))))
       ELSE /\ SetTask(h, Fail(Wrote(t, w), "CheckViolation"))
            /\ UNCHANGED aquarium_plants
    /\ UNCHANGED <<users, aquariums, measurements, aquarium_fish,
                   water_settings, eval>>

\* set_water_change, lines 503-510: INSERT ... ON CONFLICT (aquarium_id) DO UPDATE;
\* change_volume_pct is NUMERIC(5,2)
WaterUpsert(h) ==
    LET t == tasks[h]
        aq == Val(t.aq_id)
        pct == float_of_word(t.text[2])
        row == [change_volume_pct |-> to_numeric(pct, 10),
                period_days |-> Val(int_of_word(t.text[3]))]
        w == [op |-> "UPSERT water_settings", aquarium_id |-> aq, row |-> row] IN
    /\ t.pc = "upsert_water_settings"
    /\ IF numeric_fits(pct, 1000000, 10)
       THEN /\ water_settings' =
                   [a \in DOMAIN water_settings \cup {aq} |->
                       IF a = aq THEN row ELSE water_settings[a]]
            /\ SetTask(h, Done(Reply(Wrote(t, w), <<"water change saved">>)))
       ELSE /\ SetTask(h, Fail(Wrote(t, w), "NumericValueOutOfRange"))
            /\ UNCHANGED water_settings
    /\ UNCHANGED <<users, aquariums, measurements, aquarium_fish,
                   aquarium_plants, eval>>

\* history, lines 395-401: the limit
history_limit(text) ==
    IF Len(text) = 2 /\ int_of_word(text[2]) # None
    THEN Max(1, Min(30, Val(int_of_word(text[2]))))
    ELSE 5

\* history, lines 402-417: the newest rows of the aquarium, at most limit
HistorySelect(h) ==
    LET t == tasks[h]
        mine == {i \in DOMAIN measurements : measurements[i].aquarium_id = Val(t.aq_id)}
        shown == {i \in mine : Cardinality({j \in mine : j > i}) < history_limit(t.text)} IN
    /\ t.pc = "select_history"
    /\ IF mine = {}
       THEN SetTask(h, Done(Reply(t, <<"history is empty">>)))
       ELSE SetTask(h, Done(Reply(t, <<"history", shown>>)))
    /\ UNCHANGED <<dbvars, eval>>

\* chart_cmd, lines 544-550: matplotlib is there or it is not
ChartImport(h) ==
    LET t == tasks[h] IN
    /\ t.pc = "import_matplotlib"
    /\ \/ SetTask(h, Goto(t, "get_active_aq"))
       \/ SetTask(h, Done(Reply(t, <<"matplotlib is not installed">>)))
    /\ UNCHANGED <<dbvars, eval>>

\* chart_cmd, lines 568-573: the limit
chart_limit(text) ==
    IF Len(text) >= 3 /\ int_of_word(text[3]) # None
    THEN Max(3, Min(100, Val(int_of_word(text[3]))))
    ELSE 20

\* chart_cmd, lines 575-598: the newest non-NULL values of the column
ChartSelect(h) ==
    LET t == tasks[h]
        col == ChartKeyMap[str_lower(Plain(t.text[2]))]
        mine == {i \in DOMAIN measurements :
                    /\ measurements[i].aquarium_id = Val(t.aq_id)
                    /\ measurements[i][col] # None}
        shown == {i \in mine : Cardinality({j \in mine : j > i}) < chart_limit(t.text)} IN
    /\ t.pc = "select_chart"
    /\ IF mine = {}
       THEN SetTask(h, Done(Reply(t, <<"no data for the chart">>)))
       ELSE SetTask(h, Done(Reply(t, <<"photo", col, shown>>)))
    /\ UNCHANGED <<dbvars, eval>>

-----------------------------------------------------------------------------
(* The messages of the model *)

W(s) == <<s>>
KV(k, v) == <<k, v>>

InitHandlers ==
    /\ DbInit
    /\ tasks = [h \in TaskIds |-> Idle]
    /\ eval = NoEval

AddAquariumTexts ==
    { <<W("/add_aquarium")>>,
      <<W("/add_aquarium"), W("tank")>>,
      <<W("/add_aquarium"), W("tank"), W("60,5")>> }

\* /add_measure with every field, with a zero, a missing, a negative and a
\* non-numeric value, with the aliases of the temperature, and with values the
\* calculator or the column refuses
AddMeasureTexts ==
    { <<W("/add_measure"), KV("ph", "7.2"), KV("gh", "8"), KV("kh", "4"),
        KV("no2", "0.02"), KV("no3", "10"), KV("tan", "0.2"), KV("po4", "0.5"),
        KV("t", "25")>>,
      <<W("/add_measure"), KV("tan", "0.2"), KV("ph", "7.2"), KV("t", "0")>>,
      <<W("/add_measure"), KV("tan", "0.2"), KV("ph", "7.2")>>,
      <<W("/add_measure"), KV("tan", "-1"), KV("ph", "7.2"), KV("t", "25")>>,
      <<W("/add_measure"), KV("tan", "0.2"), KV("ph", "abc"), KV("t", "25")>>,
      <<W("/add_measure"), KV("tan", "0"), KV("ph", "0"), KV("temp", "25")>>,
      <<W("/add_measure"), KV("PH", "7,2"), KV("Tan", "0,2"), KV("T", "25")>>,
      <<W("/add_measure"), KV("tan", "0.2"), KV("ph", "7.2"), KV("t", "-273.15")>>,
      <<W("/add_measure")>>,
      <<W("/add_measure"), KV("tan", "0.2"), KV("ph", "7.2"), KV("t", "0"),
        KV("temp", "25")>>,
      <<W("/add_measure"), KV("ph", "7.2"), W("junk"), KV("tan", "0.2"),
        KV("temperature", "25")>>,
      <<W("/add_measure"), KV("ph", "100"), KV("t", "25")>> }

-----------------------------------------------------------------------------
(* /add_aquarium and /add_measure from one user, two handlers at a time *)

NextMeasure ==
    \E h \in TaskIds :
        \/ \E text \in AddAquariumTexts : Start(h, "add_aquarium", 1, text)
        \/ \E text \in AddMeasureTexts : Start(h, "add_measure", 1, text)
        \/ EnsureUserSelect(h)
        \/ EnsureUserInsert(h)
        \/ AquariumInsert(h)
        \/ GetActiveAq(h)
        \/ AquariumSelectLast(h)
        \/ AquariumUpdateActive(h)
        \/ MeasureInsert(h)
        \/ Finish(h)

SpecMeasure == InitHandlers /\ [][NextMeasure]_vars

-----------------------------------------------------------------------------
(* /add_fish and /add_plant from one user against an aquarium whose latest   *)
(* measurement suits a guppy, or suits nothing                               *)

CompatMeasureTexts ==
    { <<W("/add_measure"), KV("ph", "7.2"), KV("gh", "8"), KV("tan", "0.2"),
        KV("no3", "10"), KV("po4", "0.5"), KV("t", "25")>>,
      <<W("/add_measure"), KV("ph", "9.5"), KV("gh", "40"), KV("tan", "5"),
        KV("no2", "0.5"), KV("no3", "40"), KV("t", "40")>> }

AddFishTexts ==
    { <<W("/add_fish"), W("guppi"), W("5")>>,
      <<W("/add_fish"), W("NEON"), W("3")>>,
      <<W("/add_fish"), W("zavrik"), W("5")>>,
      <<W("/add_fish"), W("guppi"), W("0")>>,
      <<W("/add_fish"), W("guppi"), W("-2")>>,
      <<W("/add_fish"), W("guppi"), W("abc")>>,
      <<W("/add_fish"), W("guppi"), W("5"), W("sht")>>,
      <<W("/add_fish"), W("guppi")>> }

AddPlantTexts ==
    { <<W("/add_plant"), W("anubias"), W("3")>>,
      <<W("/add_plant"), W("ELODEYA"), W("7")>>,
      <<W("/add_plant"), W("zavrik"), W("3")>>,
      <<W("/add_plant"), W("anubias"), W("0")>>,
      <<W("/add_plant"), W("anubias"), W("2.5")>>,
      <<W("/add_plant")>> }

NextOrganism ==
    \E h \in TaskIds :
        \/ Start(h, "add_aquarium", 1, <<W("/add_aquarium"), W("tank")>>)
        \/ \E text \in CompatMeasureTexts : Start(h, "add_measure", 1, text)
        \/ \E text \in AddFishTexts : Start(h, "add_fish", 1, text)
        \/ \E text \in AddPlantTexts : Start(h, "add_plant", 1, text)
        \/ EnsureUserSelect(h)
        \/ EnsureUserInsert(h)
        \/ AquariumInsert(h)
        \/ GetActiveAq(h)
        \/ AquariumSelectLast(h)
        \/ AquariumUpdateActive(h)
        \/ MeasureInsert(h)
        \/ GetLastMeas(h)
        \/ FishInsert(h)
        \/ PlantInsert(h)
        \/ Finish(h)

SpecOrganism == InitHandlers /\ [][NextOrganism]_vars

-----------------------------------------------------------------------------
(* The commands that need an active aquarium, with /add_aquarium, from one   *)
(* user, two handlers at a time                                              *)

WaterChangeTexts ==
    { <<W("/set_water_change"), W("30"), W("7")>>,
      <<W("/set_water_change"), W("abc"), W("7")>>,
      <<W("/set_water_change")>> }

HistoryTexts == { <<W("/history")>>, <<W("/history"), W("3")>> }

ChartTexts ==
    { <<W("/chart"), W("PH"), W("3")>>, <<W("/chart"), W("nh3")>>,
      <<W("/chart"), W("zavrik")>>, <<W("/chart")>> }

OneMeasureText == <<W("/add_measure"), KV("ph", "9.5"), KV("tan", "5"), KV("t", "25")>>
\* a second reading of the same water, sent to correct the first
CorrectedMeasureText == <<W("/add_measure"), KV("ph", "7.2"), KV("tan", "0.2"), KV("t", "25")>>
OneFishText == <<W("/add_fish"), W("guppi"), W("5")>>
OnePlantText == <<W("/add_plant"), W("anubias"), W("3")>>

NextGuard ==
    \E h \in TaskIds :
        \/ Start(h, "add_aquarium", 1, <<W("/add_aquarium"), W("tank")>>)
        \/ Start(h, "add_measure", 1, OneMeasureText)
        \/ Start(h, "add_fish", 1, OneFishText)
        \/ Start(h, "add_plant", 1, OnePlantText)
        \/ \E text \in WaterChangeTexts : Start(h, "set_water_change", 1, text)
        \/ Start(h, "history", 1, <<W("/history"), W("3")>>)
        \/ Start(h, "suggest", 1, <<W("/suggest")>>)
        \/ \E text \in ChartTexts : Start(h, "chart", 1, text)
        \/ EnsureUserSelect(h)
        \/ EnsureUserInsert(h)
        \/ AquariumInsert(h)
        \/ GetActiveAq(h)
        \/ AquariumSelectLast(h)
        \/ AquariumUpdateActive(h)
        \/ MeasureInsert(h)
        \/ GetLastMeas(h)
        \/ FishInsert(h)
        \/ PlantInsert(h)
        \/ WaterUpsert(h)
        \/ HistorySelect(h)
        \/ ChartImport(h)
        \/ ChartSelect(h)
        \/ Finish(h)

SpecGuard == InitHandlers /\ [][NextGuard]_vars

-----------------------------------------------------------------------------
(* Registration and the active aquarium: /start, /list_aquariums,            *)
(* /add_aquarium and the "setactive" callback from two users, two handlers   *)
(* at a time                                                                 *)

ActiveData == {<<W("setactive"), i>> : i \in 1..MaxAquariums}

NextActive ==
    \E h \in TaskIds : \E u \in UserIds :
        \/ Start(h, "start", u, <<W("/start")>>)
        \/ Start(h, "list_aquariums", u, <<W("/list_aquariums")>>)
        \/ Start(h, "add_aquarium", u, <<W("/add_aquarium"), W("tank")>>)
        \/ \E data \in ActiveData : Start(h, "set_active_cb", u, data)
        \/ EnsureUserSelect(h)
        \/ EnsureUserInsert(h)
        \/ ListSelect(h)
        \/ SetActiveSelect(h)
        \/ SetActiveUpdate(h)
        \/ AquariumInsert(h)
        \/ GetActiveAq(h)
        \/ AquariumSelectLast(h)
        \/ AquariumUpdateActive(h)
        \/ Finish(h)

SpecActive == InitHandlers /\ [][NextActive]_vars

-----------------------------------------------------------------------------
(* Every handler, two users, the messages handled one at a time *)

SetActiveData == {<<W("setactive"), i>> : i \in 1..MaxAquariums}

\* a message arrives while no handler is running
StartAlone(h, cmd, user, text) ==
    /\ \A g \in TaskIds : tasks[g].pc = "idle"
    /\ h = "h1"
    /\ Start(h, cmd, user, text)

Next ==
    \E h \in TaskIds : \E u \in UserIds :
        \/ StartAlone(h, "start", u, <<W("/start")>>)
        \/ StartAlone(h, "list_aquariums", u, <<W("/list_aquariums")>>)
        \/ \E data \in SetActiveData : StartAlone(h, "set_active_cb", u, data)
        \/ StartAlone(h, "add_aquarium", u, <<W("/add_aquarium"), W("tank")>>)
        \/ StartAlone(h, "add_measure", u, OneMeasureText)
        \/ StartAlone(h, "add_measure", u, CorrectedMeasureText)
        \/ StartAlone(h, "add_fish", u, OneFishText)
        \/ StartAlone(h, "add_plant", u, OnePlantText)
        \/ \E text \in WaterChangeTexts : StartAlone(h, "set_water_change", u, text)
        \/ \E text \in HistoryTexts : StartAlone(h, "history", u, text)
        \/ StartAlone(h, "suggest", u, <<W("/suggest")>>)
        \/ \E text \in ChartTexts : StartAlone(h, "chart", u, text)
        \/ EnsureUserSelect(h)
        \/ EnsureUserInsert(h)
        \/ ListSelect(h)
        \/ SetActiveSelect(h)
        \/ SetActiveUpdate(h)
        \/ AquariumInsert(h)
        \/ GetActiveAq(h)
        \/ AquariumSelectLast(h)
        \/ AquariumUpdateActive(h)
        \/ MeasureInsert(h)
        \/ GetLastMeas(h)
        \/ FishInsert(h)
        \/ PlantInsert(h)
        \/ WaterUpsert(h)
        \/ HistorySelect(h)
        \/ ChartImport(h)
        \/ ChartSelect(h)
        \/ Finish(h)

Spec == InitHandlers /\ [][Next]_vars

-----------------------------------------------------------------------------
(* The calculator on its own: every call of split_tan_to_nh3_nh4 over a grid *)

MaxTanSteps == 8

TanVals == {-1000, -1} \cup {250 * k : k \in 0..MaxTanSteps} \cup {1, 199}
PhVals == {-400000, 0, 5000, 7000, 7200, 9246, 14000, 400000}
TempVals == {-300000, -273150, -273000, 0, 25000, 30000, 100000}

InitChem ==
    /\ DbInit
    /\ tasks = [h \in TaskIds |-> Idle]
    /\ \E tan \in TanVals, ph \in PhVals, temp_c \in TempVals :
           eval = [fn |-> "split_tan_to_nh3_nh4", tan |-> tan, ph |-> ph,
                   temp_c |-> temp_c, out |-> None]

CallSplit ==
    /\ eval.fn = "split_tan_to_nh3_nh4"
    /\ eval.out = None
    /\ eval' = [eval EXCEPT !.out =
                   Some(split_tan_to_nh3_nh4(eval.tan, eval.ph, eval.temp_c))]
    /\ UNCHANGED <<dbvars, tasks>>

NextChem == CallSplit

SpecChem == InitChem /\ [][NextChem]_vars

-----------------------------------------------------------------------------
(* The compatibility check on its own: every species spelling against      *)
(* measurements that sit on, inside and just outside each bound            *)

FishWords == {"guppi", "Guppi", "GUPPI", "neon", "NEON", "skalyariya",
              "Skalyariya", "zolotaya rybka", "Zolotaya Rybka",
              "zavrik", "ZAVRIK", "anubias", ""}
PlantWords == {"anubias", "Anubias", "rogolistnik", "Rogolistnik", "elodeya",
               "ELODEYA", "zavrik", "ZAVRIK", "neon", ""}

\* absent, just below, on the lower bound, on the upper bound, just above
Around(lo, hi) == {None, Some(lo - 1), Some(lo), Some(hi), Some(hi + 1)}
\* absent, zero, on the ceiling, just above
UpTo(hi) == {None, Some(0), Some(hi), Some(hi + 1)}

FishMeasAround(sp) ==
    {MeasDict(ph, gh, t, no2, None, None, nh3, None, None) :
        ph \in Around(sp[1], sp[2]), gh \in Around(sp[3], sp[4]),
        t \in Around(sp[5], sp[6]), no2 \in UpTo(sp[7]), nh3 \in UpTo(sp[8])}
    \cup {EmptyDict}

PlantMeasAround(sp) ==
    {MeasDict(ph, gh, t, None, no3, None, None, None, po4) :
        ph \in Around(sp[1], sp[2]), gh \in Around(sp[3], sp[4]),
        t \in Around(sp[5], sp[6]), no3 \in Around(sp[7], sp[8]),
        po4 \in Around(sp[9], sp[10])}
    \cup {EmptyDict}

\* the bounds the measurements are laid around: the species' own, or guppi's /
\* anubias' for a word the guide does not hold
FishBounds(w) ==
    IF str_lower(w) \in DOMAIN FISH_GUIDE THEN FISH_GUIDE[str_lower(w)]
    ELSE FISH_GUIDE["guppi"]
PlantBounds(w) ==
    IF str_lower(w) \in DOMAIN PLANT_GUIDE THEN PLANT_GUIDE[str_lower(w)]
    ELSE PLANT_GUIDE["anubias"]

InitCompat ==
    /\ DbInit
    /\ tasks = [h \in TaskIds |-> Idle]
    /\ \/ \E w \in FishWords : \E m \in FishMeasAround(FishBounds(w)) :
              eval = [fn |-> "check_fish_compat", meas |-> m, species |-> w,
                      out |-> None]
       \/ \E w \in PlantWords : \E m \in PlantMeasAround(PlantBounds(w)) :
              eval = [fn |-> "check_plant_compat", meas |-> m, species |-> w,
                      out |-> None]

CallFishCompat ==
    /\ eval.fn = "check_fish_compat"
    /\ eval.out = None
    /\ eval' = [eval EXCEPT !.out = Some(check_fish_compat(eval.meas, eval.species))]
    /\ UNCHANGED <<dbvars, tasks>>

CallPlantCompat ==
    /\ eval.fn = "check_plant_compat"
    /\ eval.out = None
    /\ eval' = [eval EXCEPT !.out = Some(check_plant_compat(eval.meas, eval.species))]
    /\ UNCHANGED <<dbvars, tasks>>

NextCompat == CallFishCompat \/ CallPlantCompat

SpecCompat == InitCompat /\ [][NextCompat]_vars

-----------------------------------------------------------------------------
(* Properties of the calculator *)

SplitDone == eval.fn = "split_tan_to_nh3_nh4" /\ eval.out # None

\* C3: for all tan >= 0 and all pH and temperature, split_tan_to_nh3_nh4
\* returns (nh3, nh4) with nh3 + nh4 = tan and 0 <= nh3 <= tan.
C3_SplitReturnsConservingPair ==
    (SplitDone /\ eval.tan >= 0) =>
        LET r == Val(eval.out) IN
        /\ r.ok
        /\ r.val[1] + r.val[2] = eval.tan
        /\ 0 <= r.val[1] /\ r.val[1] <= eval.tan

\* The same on the calls that return: whenever split_tan_to_nh3_nh4 returns for
\* tan >= 0, nh3 + nh4 = tan and 0 <= nh3 <= tan.
SplitConservesWhenItReturns ==
    (SplitDone /\ eval.tan >= 0 /\ Val(eval.out).ok) =>
        LET r == Val(eval.out) IN
        /\ r.val[1] + r.val[2] = eval.tan
        /\ 0 <= r.val[1] /\ r.val[1] <= eval.tan

-----------------------------------------------------------------------------
(* Properties of the compatibility check *)

CompatDone == eval.fn \in {"check_fish_compat", "check_plant_compat"} /\ eval.out # None

\* the spellings that match a guide entry when case is ignored, per entry
FishSpellings ==
    [k \in DOMAIN FISH_GUIDE |->
        CASE k = "guppi" -> {"guppi", "Guppi", "GUPPI"}
          [] k = "neon" -> {"neon", "NEON"}
          [] k = "skalyariya" -> {"skalyariya", "Skalyariya"}
          [] k = "zolotaya rybka" -> {"zolotaya rybka", "Zolotaya Rybka"}]
PlantSpellings ==
    [k \in DOMAIN PLANT_GUIDE |->
        CASE k = "anubias" -> {"anubias", "Anubias"}
          [] k = "rogolistnik" -> {"rogolistnik", "Rogolistnik"}
          [] k = "elodeya" -> {"elodeya", "ELODEYA"}]

\* the guide entry the call's species names, if any
EvalGuide == IF eval.fn = "check_fish_compat" THEN FISH_GUIDE ELSE PLANT_GUIDE
EvalSpellings == IF eval.fn = "check_fish_compat" THEN FishSpellings ELSE PlantSpellings
EvalKnown == \E k \in DOMAIN EvalSpellings : eval.species \in EvalSpellings[k]
EvalEntry == EvalGuide[CHOOSE k \in DOMAIN EvalSpellings : eval.species \in EvalSpellings[k]]

\* the dimensions checked, each with its column and its bounds (lo = None: a ceiling)
EvalDims ==
    LET sp == EvalEntry IN
    IF eval.fn = "check_fish_compat"
    THEN { <<"pH", "ph", Some(sp[1]), sp[2]>>, <<"GH", "gh", Some(sp[3]), sp[4]>>,
           <<"T", "temperature_c", Some(sp[5]), sp[6]>>,
           <<"NO2", "no2", None, sp[7]>>, <<"NH3", "nh3", None, sp[8]>> }
    ELSE { <<"pH", "ph", Some(sp[1]), sp[2]>>, <<"GH", "gh", Some(sp[3]), sp[4]>>,
           <<"T", "temperature_c", Some(sp[5]), sp[6]>>,
           <<"NO3", "no3", Some(sp[7]), sp[8]>>, <<"PO4", "po4", Some(sp[9]), sp[10]>> }

\* the field of the measurement is present and strictly outside the bounds
Violates(m, d) ==
    /\ d[2] \in DOMAIN m
    /\ m[d[2]] # None
    /\ \/ m[d[2]][1] > d[4]
       \/ d[3] # None /\ m[d[2]][1] < d[3][1]

EvalViolated == {d[1] : d \in {e \in EvalDims : Violates(eval.meas, e)}}

EvalOk == Val(eval.out)[1]
EvalProbs == Val(eval.out)[2]

\* C4: for a species name that matches no guide entry (case ignored) both checks
\* return compatible = true with exactly one advisory message, whatever the
\* measurement holds.
C4_UnknownSpeciesIsCompatibleWithOneAdvisory ==
    (CompatDone /\ ~EvalKnown) => (EvalOk = TRUE /\ Len(EvalProbs) = 1)

C4_Witness ==
    /\ CompatDone /\ eval.fn = "check_fish_compat" /\ eval.species = "ZAVRIK"
    /\ eval.meas # EmptyDict /\ eval.meas["ph"] = Some(8201)
    /\ eval.meas["nh3"] = Some(21)

\* C5: for a species of the guide, the dimensions that produce a message are
\* exactly those whose field is present and strictly outside its bounds (a value
\* on a bound and an absent field produce none), and against no measurement at
\* all the species is compatible.
C5_MessagesAreExactlyTheViolatedDimensions ==
    (CompatDone /\ EvalKnown) =>
        /\ {EvalProbs[i][1] : i \in DOMAIN EvalProbs} = EvalViolated
        /\ (eval.meas = EmptyDict => EvalOk = TRUE /\ EvalProbs = <<>>)

C5_Witness ==
    /\ CompatDone /\ eval.fn = "check_fish_compat" /\ eval.species = "NEON"
    /\ eval.meas # EmptyDict
    /\ eval.meas["ph"] = Some(7200) /\ eval.meas["gh"] = Some(10001)
    /\ eval.meas["temperature_c"] = None /\ eval.meas["no2"] = Some(50)
    /\ {EvalProbs[i][1] : i \in DOMAIN EvalProbs} = {"GH"}

\* C6: for a species of the guide, each violated dimension appends exactly one
\* message (as many messages as violated dimensions, at most 5), and compatible
\* is true if and only if the message list is empty.
C6_OneMessagePerViolationAndOkIffNone ==
    (CompatDone /\ EvalKnown) =>
        /\ Len(EvalProbs) = Cardinality(EvalViolated)
        /\ \A d \in EvalViolated :
               Cardinality({i \in DOMAIN EvalProbs : EvalProbs[i][1] = d}) = 1
        /\ Len(EvalProbs) <= 5
        /\ (EvalOk = TRUE) <=> (EvalProbs = <<>>)

C6_Witness ==
    /\ CompatDone /\ eval.fn = "check_plant_compat" /\ eval.species = "ELODEYA"
    /\ Len(EvalProbs) = 5 /\ EvalOk = FALSE

-----------------------------------------------------------------------------
(* Properties of /add_measure *)

\* the handler of an /add_measure message has returned after its INSERT
MeasureInserted(h) ==
    /\ tasks[h].cmd = "add_measure"
    /\ tasks[h].pc = "done"
    /\ tasks[h].writes # <<>>

\* the parameters of that INSERT
InsertedMeasurement(h) == tasks[h].writes[1].row

\* the spellings of the keys /add_measure reads
PhKeys == {"ph", "PH"}
TanKeys == {"tan", "Tan"}
TempKeys == {"t", "T", "temp", "TEMP", "temperature", "temperature_c"}

\* the numbers the message supplies under one of the keys
Supplied(text, keys) ==
    {Val(py_float(replace_comma(text[i][2]))) :
        i \in {j \in DOMAIN text : /\ HasEq(text[j])
                                   /\ text[j][1] \in keys
                                   /\ py_float(replace_comma(text[j][2])) # None}}

\* the message holds "key=value" with a value that is no number
HasNonNumeric(text) ==
    \E i \in DOMAIN text : HasEq(text[i]) /\ py_float(replace_comma(text[i][2])) = None

\* C1: the inserted measurement has nh3 and nh4 both present if and only if
\* tan, ph and temperature are all supplied (zero included); when one of them
\* is missing both are absent; a supplied temperature is stored as supplied.
C1_DerivedFieldsIffAllThreeSupplied ==
    \A h \in TaskIds : MeasureInserted(h) =>
        LET r == InsertedMeasurement(h)
            text == tasks[h].text
            all3 == /\ Supplied(text, TanKeys) # {}
                    /\ Supplied(text, PhKeys) # {}
                    /\ Supplied(text, TempKeys) # {} IN
        /\ (r.nh3 # None /\ r.nh4 # None) <=> all3
        /\ ~all3 => (r.nh3 = None /\ r.nh4 = None)
        /\ Supplied(text, TempKeys) # {} =>
               (r.temperature_c # None /\ Val(r.temperature_c) \in Supplied(text, TempKeys))

\* C2: every measurement add_measure persists with nh3 and nh4 both present has
\* nh3 + nh4 = tan, tan being the value of the same record, negative tan included.
C2_StoredNh3PlusNh4IsStoredTan ==
    \A h \in TaskIds : MeasureInserted(h) =>
        LET r == InsertedMeasurement(h) IN
        (r.nh3 # None /\ r.nh4 # None) => Val(r.nh3) + Val(r.nh4) = Val(r.tan)

\* C10: a non-numeric value where a number is expected is rejected: an error
\* prompt is issued and no measurement is persisted from that message.
C10_NonNumericValueIsRejected ==
    \A h \in TaskIds :
        (/\ tasks[h].cmd = "add_measure"
         /\ tasks[h].pc \in {"done", "failed"}
         /\ tasks[h].aq_id # None
         /\ HasNonNumeric(tasks[h].text)) =>
            /\ tasks[h].writes = <<>>
            /\ tasks[h].replies # <<>>
            /\ tasks[h].replies[1][1] # "measurement saved"

-----------------------------------------------------------------------------
(* Properties of /add_fish and /add_plant *)

OrganismCmds == {"add_fish", "add_plant"}
Ended(h) == tasks[h].pc \in {"done", "failed"}

\* the quantity as the message gives it: the third and last word, an integer
QtyWords == {"0", "3", "5", "7", "30", "100", "-2", "-1"}
HasIntegerQty(text) == Len(text) = 3 /\ Len(text[3]) = 1 /\ text[3][1] \in QtyWords
QtyOf(text) ==
    LET w == text[3][1] IN
    CASE w = "0" -> 0 [] w = "3" -> 3 [] w = "5" -> 5 [] w = "7" -> 7
      [] w = "30" -> 30 [] w = "100" -> 100 [] w = "-2" -> -2 [] w = "-1" -> -1

InsertOpOf(cmd) == IF cmd = "add_fish" THEN "INSERT aquarium_fish" ELSE "INSERT aquarium_plants"

\* C7: for every /add_fish or /add_plant from a user with an active aquarium and
\* an integer quantity, the organism insert into that aquarium is issued exactly
\* once whatever the verdict, and the compatibility check writes nothing.
C7_OrganismInsertIssuedOnceWhateverTheVerdict ==
    \A h \in TaskIds :
        LET t == tasks[h] IN
        (t.cmd \in OrganismCmds /\ t.aq_id # None /\ HasIntegerQty(t.text)) =>
            /\ t.pc \in {"insert_fish", "insert_plant"} => t.writes = <<>>
            /\ Ended(h) =>
                  /\ Len(t.writes) = 1
                  /\ t.writes[1].op = InsertOpOf(t.cmd)
                  /\ t.writes[1].row = [aquarium_id |-> Val(t.aq_id),
                                        species |-> t.text[2][1],
                                        qty |-> QtyOf(t.text)]

C7_Witness ==
    \E h \in TaskIds :
        /\ tasks[h].cmd = "add_fish" /\ tasks[h].pc = "done"
        /\ tasks[h].loc # None /\ Val(tasks[h].loc)[1] = FALSE
        /\ Len(tasks[h].writes) = 1
        /\ \E i \in DOMAIN aquarium_fish : aquarium_fish[i] = tasks[h].writes[1].row

\* C9: a malformed quantity in /add_fish or /add_plant, non-numeric or an integer
\* out of range such as zero or a negative number, is answered with a prompt and
\* no insert is attempted: no organism row with qty <= 0 is submitted to storage.
C9_MalformedQuantityIsNeverSubmitted ==
    \A h \in TaskIds :
        LET t == tasks[h] IN
        (t.cmd \in OrganismCmds /\ Ended(h) /\ t.aq_id # None /\ Len(t.text) >= 3
            /\ (~HasIntegerQty(t.text) \/ QtyOf(t.text) <= 0)) =>
                /\ t.writes = <<>>
                /\ t.replies # <<>>

-----------------------------------------------------------------------------
(* Properties of the commands that need an active aquarium *)

\* the user has no active aquarium: no row in users, or NULL in it
HasNoActive(u) == ~users[u].exists \/ users[u].active_aquarium_id = None

-----------------------------------------------------------------------------
(* Properties of the measurements table *)

\* C11: measurement records are immutable once created: every step keeps each
\* row there is, with the same field values, and the table changes only when an
\* add_measure handler inserts one new row for its aquarium; no handler
\* updates or deletes a measurement.
C11_MeasurementsAreOnlyEverAppended ==
    [][/\ Len(measurements') >= Len(measurements)
       /\ \A i \in DOMAIN measurements : measurements'[i] = measurements[i]
       /\ measurements' # measurements =>
             \E h \in TaskIds :
                 /\ tasks[h].cmd = "add_measure"
                 /\ tasks[h].pc = "insert_measurement"
                 /\ tasks'[h].pc = "done"
                 /\ Len(measurements') = Len(measurements) + 1
                 /\ measurements'[Len(measurements')].aquarium_id = Val(tasks[h].aq_id)]_vars

\* a second, different measurement of the same aquarium has been inserted,
\* and the first one is still in the table
C11_Witness ==
    /\ Len(measurements) = 2
    /\ measurements[1].aquarium_id = measurements[2].aquarium_id
    /\ measurements[1] # measurements[2]
    /\ \E h \in TaskIds : tasks[h].cmd = "add_measure" /\ tasks[h].pc = "done"

-----------------------------------------------------------------------------
(* Properties of the active aquarium *)

\* the aquarium exists and belongs to the user
Owns(u, aq_id) == aq_id \in DOMAIN aquariums /\ aquariums[aq_id].user_id = u

\* the active aquarium of each user is unset or one of the user's own
ActivePointerIsOwned ==
    \A u \in UserIds :
        users[u].active_aquarium_id # None => Owns(u, Val(users[u].active_aquarium_id))

\* C12: under every interleaving of handlers the active aquarium of a user is
\* unset or an aquarium of that user; the pointer changes only in the UPDATE of
\* a set_active_cb whose ownership check succeeded, or in the UPDATE of an
\* add_aquarium of a user who has no active aquarium, to an aquarium of that
\* user: add_aquarium never replaces an existing active pointer.
C12_ActivePointerOwnedAndNeverReplacedByAdd ==
    /\ []ActivePointerIsOwned
    /\ [][\A u \in UserIds :
             users'[u].active_aquarium_id # users[u].active_aquarium_id =>
                \E h \in TaskIds :
                    /\ tasks[h].user = u
                    /\ tasks[h].pc = "update_active"
                    /\ tasks'[h].pc = "done"
                    /\ users'[u].active_aquarium_id # None
                    /\ Owns(u, Val(users'[u].active_aquarium_id))
                    /\ \/ tasks[h].cmd = "set_active_cb"
                       \/ /\ tasks[h].cmd = "add_aquarium"
                          /\ users[u].active_aquarium_id = None]_vars

-----------------------------------------------------------------------------
(* Properties of ensure_user *)

\* the handler has issued the INSERT of the row of user u
IssuedUserInsert(h, u) ==
    \E i \in DOMAIN tasks[h].writes :
        /\ tasks[h].writes[i].op = "INSERT users"
        /\ tasks[h].writes[i].user_id = u

\* C13: under every interleaving of concurrently handled messages from the same
\* new user, the INSERT of that user's row is issued at most once: no two
\* handlers both issue it, none attempts a duplicate primary key, and no
\* handler fails because of registration.
C13_UserInsertIssuedAtMostOnce ==
    /\ \A h \in TaskIds : tasks[h].err # Some("UniqueViolation")
    /\ \A u \in UserIds : \A h \in TaskIds : \A g \in TaskIds \ {h} :
           ~(IssuedUserInsert(h, u) /\ IssuedUserInsert(g, u))

=============================================================================
